---- MODULE Spec2Model ----
(***************************************************************************)
(* Session flow (SubscribedApp / Queue / Solutions pages and the React     *)
(* Query session cache) and the reveal ladder (BlurredCodeSection and the  *)
(* code_reveals persistence helper) of the LeetCode helper.                *)
(*                                                                         *)
(* Grain of atomicity.  One IPC event runs every registered handler in one *)
(* JavaScript task; React 18 (createRoot) batches the state updates of     *)
(* that task into one render, so an event is one action whose result is    *)
(* the state after that render.  The passive effect of Solutions that      *)
(* depends on [currentStep, hasSubmittedExplanation] runs after the commit *)
(* and is a separate action (FlushEffects); the next event is taken once   *)
(* the pending effect has run.                                             *)
(***************************************************************************)
EXTENDS Integers, Sequences, FiniteSets, TLC

VARIABLES
    view,                \* SubscribedApp: "queue" | "solutions"
    queryCache,          \* session cache entries problem_statement / solution / new_solution
    solutions,           \* useState values of the Solutions page (initial values while unmounted)
    effectPending,       \* the cache effect of Solutions has to run for the last commit
    pendingExplanation,  \* an in-flight handleSubmit / handleSkip of UserExplanation
    toast,               \* variant of the last notification shown
    last,                \* history: the last handler that ran and the state it started from
    userSignedIn,        \* useUser().user is set
    code_reveals,        \* rows of the code_reveals table
    section,             \* useState values of the mounted BlurredCodeSection and its key
    calls,               \* history: handler invocations on the mounted section
    user_profiles,       \* rows of the user_profiles table (one user)
    hint_usage,          \* number of rows of the hint_usage table
    lastCall,            \* history: the last profile / hint call, what it started from and returned
    reveal_rows,         \* code_reveals rows of one user and category inside the 30-day window
    learning_progress,   \* rows of learning_progress for that user and category
    stored,              \* the rows a dashboard query reads
    returned,            \* what the last dashboard query function returned
    problem_history,     \* ids of the rows of the problem_history table
    user_explanations,   \* rows of the user_explanations table
    completion,          \* history: the last handleSubmit / handleSkip and its onComplete call
    inflight,            \* the trackCodeReveal calls in flight: what each was given and has read
    tracker,             \* history of the trackCodeReveal calls: how many, the highest levels, overlaps
    pending,             \* the useHintCredit calls in flight: the credits each has read
    ledger,              \* history of the useHintCredit calls since the last daily reset
    provider             \* UserProvider: the auth session, its state and the pending callbacks

flowVars == <<view, queryCache, solutions, effectPending, pendingExplanation, toast, last>>
revealVars == <<userSignedIn, code_reveals, section, calls>>
creditVars == <<user_profiles, hint_usage, lastCall>>
progressVars == <<reveal_rows, learning_progress>>
queryVars == <<stored, returned>>
explainVars == <<problem_history, user_explanations, completion>>
trackVars == <<inflight, tracker>>
hintCallVars == <<pending, ledger>>
moreVars == <<explainVars, trackVars, hintCallVars, provider>>
dataVars == <<creditVars, progressVars, queryVars, moreVars>>
vars == <<view, queryCache, solutions, effectPending, pendingExplanation, toast, last,
          userSignedIn, code_reveals, section, calls, user_profiles, hint_usage, lastCall,
          reveal_rows, learning_progress, stored, returned,
          problem_history, user_explanations, completion, inflight, tracker,
          pending, ledger, provider>>

\* Largest number of extra screenshots the main process reports.
MaxScreenshots == 1

-----------------------------------------------------------------------------
(* Session cache *)

\* A cache entry is "none" (no query), "null" (a query holding null) or "data".
Truthy(v) == v = "data"

EmptyCache == [problem_statement |-> "none", solution |-> "none", new_solution |-> "none"]

\* queryClient.setQueryData([key], value)
SetQueryData(cache, key, value) == [cache EXCEPT ![key] = value]

\* queryClient.removeQueries({queryKey: [key]})
RemoveQueries(cache, key) == [cache EXCEPT ![key] = "none"]

-----------------------------------------------------------------------------
(* Solutions page *)

Steps == {"extracting", "user_explanation", "generating_solution", "solution_ready", "debug"}

InitialSolutions ==
    [currentStep |-> "extracting",
     problemInfo |-> "null",
     solutionData |-> "null",
     hasSubmittedExplanation |-> FALSE,
     userExplanationText |-> "",
     currentProblemId |-> "",
     extraScreenshots |-> 0]

\* Mutant of ShouldUpdateStep: the flag is never cleared.
ShouldUpdateAlways(step, submitted) == TRUE

\* The value shouldUpdateStep holds once the effect body has run.
ShouldUpdateStep(step, submitted) == ~(step = "user_explanation" /\ ~submitted)

\* getQueryData(...) || null
OrNull(v) == IF Truthy(v) THEN v ELSE "null"

\* The cache subscription installed by the effect that ran for state c: the
\* callback reads currentStep and shouldUpdateStep from that closure.
SubscribeCallback(s, key, cache, c) ==
    IF ~ShouldUpdateStep(c.currentStep, c.hasSubmittedExplanation) THEN s
    ELSE IF key = "problem_statement"
         THEN [s EXCEPT !.problemInfo = OrNull(cache.problem_statement),
                        !.currentStep = IF c.currentStep = "extracting"
                                        THEN "user_explanation" ELSE @]
    ELSE IF key = "solution"
         THEN [s EXCEPT !.solutionData = OrNull(cache.solution),
                        !.currentStep = IF c.currentStep = "generating_solution"
                                        THEN "solution_ready" ELSE @]
    ELSE IF key = "new_solution"
         THEN [s EXCEPT !.currentStep = "debug"]
    ELSE s

\* Mutant of CacheEffect: a cached solution no longer moves generating_solution on.
CacheEffectKeepsGenerating(s, cache) ==
    LET s1 == IF Truthy(cache.problem_statement)
              THEN [s EXCEPT !.problemInfo = cache.problem_statement,
                             !.currentStep = IF s.currentStep = "extracting"
                                             THEN "user_explanation" ELSE @]
              ELSE s
        s2 == IF Truthy(cache.solution)
              THEN [s1 EXCEPT !.solutionData = cache.solution]
              ELSE s1
    IN  IF Truthy(cache.new_solution)
           /\ ShouldUpdateStep(s.currentStep, s.hasSubmittedExplanation)
        THEN [s2 EXCEPT !.currentStep = "debug"]
        ELSE s2

\* Body of the effect with deps [queryClient, currentStep, hasSubmittedExplanation].
\* The tests read the rendered currentStep (s), the updates queue up (last wins).
CacheEffect(s, cache) ==
    LET s1 == IF Truthy(cache.problem_statement)
              THEN [s EXCEPT !.problemInfo = cache.problem_statement,
                             !.currentStep = IF s.currentStep = "extracting"
                                             THEN "user_explanation" ELSE @]
              ELSE s
        s2 == IF Truthy(cache.solution)
              THEN [s1 EXCEPT !.solutionData = cache.solution,
                              !.currentStep = IF s.currentStep = "generating_solution"
                                              THEN "solution_ready" ELSE @]
              ELSE s1
    IN  IF Truthy(cache.new_solution)
           /\ ShouldUpdateStep(s.currentStep, s.hasSubmittedExplanation)
        THEN [s2 EXCEPT !.currentStep = "debug"]
        ELSE s2

\* The effect runs again when one of its deps changed in the commit.
DepsChanged(s, t) ==
    \/ s.currentStep # t.currentStep
    \/ s.hasSubmittedExplanation # t.hasSubmittedExplanation

\* isResetting is set by the reset handler of Solutions and cleared by its
\* zero-delay timer; the same reset unmounts Solutions, so no commit shows it set.
isResetting == FALSE

\* Top-level render of Solutions: Debug replaces the whole page.
DebugRendered(cache) == ~isResetting /\ Truthy(cache.new_solution)

\* What the page shows as the debug view.
RendersDebug ==
    /\ view = "solutions"
    /\ (DebugRendered(queryCache) \/ solutions.currentStep = "debug")

\* renderCurrentStep mounts UserExplanation (and its buttons).
UserExplanationRendered ==
    /\ view = "solutions"
    /\ ~DebugRendered(queryCache)
    /\ solutions.currentStep = "user_explanation"
    /\ Truthy(solutions.problemInfo)

Snapshot(e) == [event |-> e, view |-> view, queryCache |-> queryCache, solutions |-> solutions]

-----------------------------------------------------------------------------
(* Handlers of the platform events *)

\* What is left of the Solutions state once SubscribedApp renders the queue:
\* the component is unmounted and the next mount starts from the initial values.
Unmounted(s) == InitialSolutions

\* SubscribedApp.setView("queue"): Solutions (state s after its own handlers) is
\* unmounted, and with it the UserExplanation call in flight (its onComplete then
\* addresses an unmounted component).
ToQueue(cache, s, variant) ==
    /\ view' = "queue"
    /\ queryCache' = cache
    /\ solutions' = Unmounted(s)
    /\ effectPending' = FALSE
    /\ pendingExplanation' = "none"
    /\ toast' = variant

\* A commit that keeps Solutions mounted with state s.
Commit(cache, s, variant) ==
    /\ view' = "solutions"
    /\ queryCache' = cache
    /\ solutions' = s
    /\ effectPending' = DepsChanged(solutions, s)
    /\ UNCHANGED pendingExplanation
    /\ toast' = variant

\* Solutions.onSolutionStart
OnSolutionStart(s) ==
    [s EXCEPT !.solutionData = "null",
              !.currentStep = "extracting",
              !.hasSubmittedExplanation = FALSE]

\* solution-start: SubscribedApp shows the solutions view; a mounted Solutions resets.
SolutionStart ==
    /\ ~effectPending
    /\ last' = Snapshot("solution-start")
    /\ IF view = "queue"
       THEN /\ view' = "solutions"
            /\ solutions' = InitialSolutions
            /\ effectPending' = TRUE
            /\ UNCHANGED <<queryCache, pendingExplanation, toast>>
       ELSE Commit(queryCache, OnSolutionStart(solutions), toast)
    /\ UNCHANGED <<revealVars, dataVars>>

\* Solutions.onProblemExtracted
OnProblemExtracted(s, cache) ==
    LET s1 == SubscribeCallback(s, "problem_statement", cache, s)
    IN  [s1 EXCEPT !.problemInfo = "data", !.currentStep = "user_explanation"]

\* problem-extracted: SubscribedApp stores the statement while the queue is shown,
\* Solutions stores it and moves on while it is mounted.
ProblemExtracted ==
    /\ ~effectPending
    /\ last' = Snapshot("problem-extracted")
    /\ LET cache == SetQueryData(queryCache, "problem_statement", "data")
       IN  IF view = "queue"
           THEN /\ queryCache' = cache
                /\ UNCHANGED <<view, solutions, effectPending, pendingExplanation, toast>>
           ELSE Commit(cache, OnProblemExtracted(solutions, cache), toast)
    /\ UNCHANGED <<revealVars, dataVars>>

\* Mutant of SolutionErrorLeaves: every error goes back to the queue.
SolutionErrorAlwaysLeaves(cache) == TRUE

\* Solutions.onSolutionError: whether the view goes back to the queue.
SolutionErrorLeaves(cache) == ~Truthy(cache.solution)

\* solution-error: Queue and SubscribedApp only notify; Solutions falls back to
\* the queue without a cached solution, and shows the cached one otherwise.
SolutionError ==
    /\ ~effectPending
    /\ last' = Snapshot("solution-error")
    /\ IF view = "queue"
       THEN /\ toast' = "error"
            /\ UNCHANGED <<view, queryCache, solutions, effectPending, pendingExplanation>>
       ELSE IF SolutionErrorLeaves(queryCache)
            THEN ToQueue(queryCache, solutions, "error")
            ELSE Commit(queryCache,
                        [solutions EXCEPT !.solutionData = OrNull(queryCache.solution)],
                        "error")
    /\ UNCHANGED <<revealVars, dataVars>>

\* Solutions.onSolutionSuccess with a non-empty payload; n screenshots are fetched.
OnSolutionSuccess(s, cache, n) ==
    LET s1 == SubscribeCallback(s, "solution", cache, s)
    IN  [s1 EXCEPT !.solutionData = "data",
                   !.currentStep = "solution_ready",
                   !.extraScreenshots = n]

\* solution-success: an empty payload is only logged.
SolutionSuccess ==
    /\ ~effectPending
    /\ last' = Snapshot("solution-success")
    /\ \E data \in {"data", "empty"}, n \in 0..MaxScreenshots :
          IF view = "queue" \/ data = "empty"
          THEN UNCHANGED <<view, queryCache, solutions, effectPending, pendingExplanation, toast>>
          ELSE LET cache == SetQueryData(queryCache, "solution", "data")
               IN  Commit(cache, OnSolutionSuccess(solutions, cache, n), toast)
    /\ UNCHANGED <<revealVars, dataVars>>

\* Solutions.onDebugSuccess
OnDebugSuccess(s, cache) ==
    LET s1 == SubscribeCallback(s, "new_solution", cache, s)
    IN  [s1 EXCEPT !.currentStep = "debug"]

\* Mutant of DebugSuccessCache: the debug result is not stored.
DebugSuccessNotCached(cache) == cache

\* The cache write of Solutions.onDebugSuccess.
DebugSuccessCache(cache) == SetQueryData(cache, "new_solution", "data")

\* debug-success: handled by Solutions (and by Debug, with the same cache write).
DebugSuccess ==
    /\ ~effectPending
    /\ last' = Snapshot("debug-success")
    /\ IF view = "queue"
       THEN UNCHANGED <<view, queryCache, solutions, effectPending, pendingExplanation, toast>>
       ELSE LET cache == DebugSuccessCache(queryCache)
            IN  Commit(cache, OnDebugSuccess(solutions, cache), toast)
    /\ UNCHANGED <<revealVars, dataVars>>

\* Mutant of ProcessingNoScreenshots: the event is handled like a processing
\* error without a cached solution.
ProcessingNoScreenshotsLeaves ==
    /\ ~effectPending
    /\ last' = Snapshot("no-screenshots")
    /\ ToQueue(queryCache, solutions, "neutral")
    /\ UNCHANGED <<revealVars, dataVars>>

\* no-screenshots: Queue and Solutions both only notify.
ProcessingNoScreenshots ==
    /\ ~effectPending
    /\ last' = Snapshot("no-screenshots")
    /\ toast' = "neutral"
    /\ UNCHANGED <<view, queryCache, solutions, effectPending, pendingExplanation>>
    /\ UNCHANGED <<revealVars, dataVars>>

\* screenshot-taken: Solutions reloads the extra screenshots, Queue refetches its own.
ScreenshotTaken ==
    /\ ~effectPending
    /\ last' = Snapshot("screenshot-taken")
    /\ IF view = "queue"
       THEN UNCHANGED <<view, queryCache, solutions, effectPending, pendingExplanation, toast>>
       ELSE \E n \in 0..MaxScreenshots :
               Commit(queryCache, [solutions EXCEPT !.extraScreenshots = n], toast)
    /\ UNCHANGED <<revealVars, dataVars>>

\* Cache writes of Solutions.onResetView.
ResetSolutionsCache(cache) ==
    RemoveQueries(RemoveQueries(cache, "solution"), "new_solution")

\* Cache writes of the reset handlers SubscribedApp registers in its [view] effect:
\* the queries are removed, then problem_statement is set to null.
ResetSubscribedAppCache(cache) ==
    SetQueryData(RemoveQueries(RemoveQueries(cache, "solution"), "problem_statement"),
                 "problem_statement", "null")

\* State updates of Solutions.onResetView (the cache removals notify the subscription).
OnResetView(s, cache) ==
    LET s1 == [s EXCEPT !.currentStep = "extracting",
                        !.hasSubmittedExplanation = FALSE,
                        !.userExplanationText = "",
                        !.currentProblemId = ""]
        s2 == IF cache.solution # "none"
              THEN SubscribeCallback(s1, "solution", RemoveQueries(cache, "solution"), s)
              ELSE s1
        s3 == IF cache.new_solution # "none"
              THEN SubscribeCallback(s2, "new_solution", ResetSolutionsCache(cache), s)
              ELSE s2
    IN  [s3 EXCEPT !.extraScreenshots = 0]

\* reset: SubscribedApp invalidates and removes the queries and shows the queue;
\* a mounted Solutions also runs its own reset handler.
ResetView ==
    /\ ~effectPending
    /\ last' = Snapshot("reset")
    /\ LET cache == IF view = "solutions" THEN ResetSolutionsCache(queryCache) ELSE queryCache
       IN  ToQueue(ResetSubscribedAppCache(cache), OnResetView(solutions, queryCache), toast)
    /\ UNCHANGED <<revealVars, dataVars>>

\* unauthorized: SubscribedApp removes solution and problem_statement and shows the queue.
Unauthorized ==
    /\ ~effectPending
    /\ last' = Snapshot("unauthorized")
    /\ ToQueue(RemoveQueries(RemoveQueries(queryCache, "solution"), "problem_statement"),
               solutions, toast)
    /\ UNCHANGED <<revealVars, dataVars>>

-----------------------------------------------------------------------------
(* User explanation *)

\* UserExplanation.handleSubmit / handleSkip start: the buttons exist while
\* UserExplanation is rendered and are disabled while isSubmitting.
ClickExplanation ==
    /\ ~effectPending
    /\ UserExplanationRendered
    /\ pendingExplanation = "none"
    /\ \E kind \in {"submit", "skip"} : pendingExplanation' = kind
    /\ last' = Snapshot("click-explanation")
    /\ UNCHANGED <<view, queryCache, solutions, effectPending, toast>>
    /\ UNCHANGED <<revealVars, dataVars>>

\* Solutions.handleExplanationComplete
HandleExplanationComplete(s, explanationSubmitted, problemId) ==
    [s EXCEPT !.hasSubmittedExplanation = TRUE,
              !.userExplanationText = IF explanationSubmitted THEN "text" ELSE "",
              !.currentProblemId = problemId,
              !.currentStep = "generating_solution"]

\* The saves of handleSubmit / handleSkip have finished (problemId is the stored id
\* or a temp-<time> id) and onComplete runs.
ExplanationComplete ==
    /\ ~effectPending
    /\ pendingExplanation # "none"
    /\ last' = Snapshot(pendingExplanation)
    /\ \E problemId \in {"id", "temp"} :
          /\ view' = "solutions"
          /\ solutions' = HandleExplanationComplete(solutions, pendingExplanation = "submit", problemId)
          /\ effectPending' = DepsChanged(solutions, solutions')
    /\ toast' = IF pendingExplanation = "submit" THEN "success" ELSE "neutral"
    /\ pendingExplanation' = "none"
    /\ UNCHANGED queryCache
    /\ UNCHANGED <<revealVars, dataVars>>

\* The pending cache effect of Solutions runs (it also reloads the screenshots).
FlushEffects ==
    /\ effectPending
    /\ last' = Snapshot("effect")
    /\ \E n \in 0..MaxScreenshots :
          LET s == [CacheEffect(solutions, queryCache) EXCEPT !.extraScreenshots = n]
          IN  /\ solutions' = s
              /\ effectPending' = DepsChanged(solutions, s)
    /\ UNCHANGED <<view, queryCache, pendingExplanation, toast>>
    /\ UNCHANGED <<revealVars, dataVars>>

CacheKeys == {"problem_statement", "solution", "new_solution"}

\* A cache entry is updated (setQueryData) or invalidated (invalidateQueries, which
\* notifies only for a query that exists) by a party other than the handlers
\* above; the subscription of the mounted Solutions observes it.
CacheEvent ==
    /\ ~effectPending
    /\ view = "solutions"
    /\ last' = Snapshot("cache-event")
    /\ \E key \in CacheKeys, kind \in {"update", "invalidate"} :
          /\ kind = "invalidate" => queryCache[key] # "none"
          /\ LET cache == IF kind = "update" THEN SetQueryData(queryCache, key, "data")
                          ELSE queryCache
             IN  Commit(cache, SubscribeCallback(solutions, key, cache, solutions), toast)
    /\ UNCHANGED <<revealVars, dataVars>>

-----------------------------------------------------------------------------
(* Reveal ladder: code_reveals table and BlurredCodeSection *)

\* REVEAL_LEVELS.length
MaxLevel == 5

\* satisfied_at_level: number | null
Null == -1

\* Problems whose code section is revealed (section_type and section_index are fixed).
NumKeys == 1
Keys == 1..NumKeys

\* Handler invocations followed per mount.
MaxCalls == 6

Min(a, b) == IF a < b THEN a ELSE b

MatchingRows(rows, key) == {r \in rows : r.key = key}

\* .single(): the row when exactly one matches, else error PGRST116 and no data.
Single(rows, key) ==
    IF Cardinality(MatchingRows(rows, key)) = 1
    THEN CHOOSE r \in MatchingRows(rows, key) : TRUE
    ELSE [id |-> 0, key |-> key, reveal_level |-> 0, satisfied_at_level |-> Null]

HasSingle(rows, key) == Cardinality(MatchingRows(rows, key)) = 1

\* Mutant of LevelIncreased: any different level is written.
LevelDiffers(existing, revealLevel) == existing.reveal_level # revealLevel

\* The update branch is taken when the stored level is below the submitted one.
LevelIncreased(existing, revealLevel) == existing.reveal_level < revealLevel

\* The fields the level-increase branch writes.
LevelUpdate(existing, revealLevel, satisfiedAtLevel) ==
    [existing EXCEPT !.reveal_level = revealLevel,
                     !.satisfied_at_level = satisfiedAtLevel]

\* trackCodeReveal on the table; outcome is what the store answers:
\* "ok", "fetch_error" (an error other than PGRST116) or "write_error".
TrackCodeReveal(rows, key, revealLevel, satisfiedAtLevel, outcome) ==
    IF outcome = "fetch_error" THEN rows
    ELSE IF ~HasSingle(rows, key)
    THEN IF outcome = "write_error" THEN rows
         ELSE rows \cup {[id |-> Cardinality(rows) + 1,
                          key |-> key,
                          reveal_level |-> revealLevel,
                          satisfied_at_level |-> satisfiedAtLevel]}
    ELSE LET existing == Single(rows, key)
         IN  IF LevelIncreased(existing, revealLevel)
             THEN IF outcome = "write_error" THEN rows
                  ELSE (rows \ {existing})
                       \cup {LevelUpdate(existing, revealLevel, satisfiedAtLevel)}
             ELSE IF satisfiedAtLevel # Null /\ existing.satisfied_at_level = Null
             THEN IF outcome = "write_error" THEN rows
                  ELSE (rows \ {existing})
                       \cup {[existing EXCEPT !.satisfied_at_level = satisfiedAtLevel]}
             ELSE rows

\* trackCodeReveal is declared Promise<void>: the awaited result is undefined.
TrackCodeRevealResult == "undefined"

\* Reading result.success of an undefined result throws a TypeError.
ReadSuccessThrows(result) == result = "undefined"

Outcomes == {"ok", "fetch_error", "write_error"}

NoCall == [key |-> 0, revealLevel |-> 0, satisfiedAtLevel |-> Null]

InitialSection(key) == [key |-> key, revealLevel |-> 0, isSatisfied |-> FALSE]

\* handleRevealMore: the level the section holds afterwards.  setRevealLevel is
\* reached only when reading result.success does not throw.
RevealLevelAfter(revealLevel, result) ==
    IF ReadSuccessThrows(result) THEN revealLevel
    ELSE Min(revealLevel + 1, MaxLevel)

\* handleRevealMore
HandleRevealMore ==
    /\ calls.reveals < MaxCalls
    /\ IF ~userSignedIn
       THEN UNCHANGED <<code_reveals, section, calls>>
       ELSE \E outcome \in Outcomes :
               LET newLevel == Min(section.revealLevel + 1, MaxLevel)
                   satisfiedAtLevel == IF section.isSatisfied THEN newLevel ELSE Null
               IN  /\ code_reveals' = TrackCodeReveal(code_reveals, section.key, newLevel,
                                                      satisfiedAtLevel, outcome)
                   /\ section' = [section EXCEPT !.revealLevel =
                                     RevealLevelAfter(@, TrackCodeRevealResult)]
                   /\ calls' = [calls EXCEPT !.reveals = @ + 1,
                                             !.track = [key |-> section.key,
                                                        revealLevel |-> newLevel,
                                                        satisfiedAtLevel |-> satisfiedAtLevel]]
    /\ UNCHANGED userSignedIn
    /\ UNCHANGED <<flowVars, dataVars>>

\* handleMarkSatisfied: setIsSatisfied is reached only when reading
\* result.success does not throw.
HandleMarkSatisfied ==
    /\ calls.marks < MaxCalls
    /\ IF ~userSignedIn \/ section.revealLevel = 0
       THEN UNCHANGED <<code_reveals, section>> /\ calls' = [calls EXCEPT !.marks = @ + 1]
       ELSE \E outcome \in Outcomes :
               /\ code_reveals' = TrackCodeReveal(code_reveals, section.key, section.revealLevel,
                                                  section.revealLevel, outcome)
               /\ section' = [section EXCEPT !.isSatisfied =
                                 IF ReadSuccessThrows(TrackCodeRevealResult) THEN @ ELSE TRUE]
               /\ calls' = [calls EXCEPT !.marks = @ + 1,
                                         !.track = [key |-> section.key,
                                                    revealLevel |-> section.revealLevel,
                                                    satisfiedAtLevel |-> section.revealLevel]]
    /\ UNCHANGED userSignedIn
    /\ UNCHANGED <<flowVars, dataVars>>

\* The code section is mounted for a problem: its local state starts over.
MountSection ==
    /\ \E key \in Keys : section' = InitialSection(key)
    /\ calls' = [calls EXCEPT !.reveals = 0, !.marks = 0]
    /\ UNCHANGED <<userSignedIn, code_reveals>>
    /\ UNCHANGED <<flowVars, dataVars>>

\* The auth session starts or ends.
AuthChange ==
    /\ userSignedIn' = ~userSignedIn
    /\ UNCHANGED <<code_reveals, section, calls>>
    /\ UNCHANGED <<flowVars, dataVars>>

\* Any caller of the exported trackCodeReveal: the level of a section and
\* either no satisfaction or satisfaction at that level, as the handlers pass.
TrackCall ==
    /\ \E key \in Keys, revealLevel \in 1..MaxLevel, outcome \in Outcomes :
          \E satisfiedAtLevel \in {Null, revealLevel} :
             /\ code_reveals' = TrackCodeReveal(code_reveals, key, revealLevel,
                                                satisfiedAtLevel, outcome)
             /\ calls' = [calls EXCEPT !.track = [key |-> key,
                                                  revealLevel |-> revealLevel,
                                                  satisfiedAtLevel |-> satisfiedAtLevel]]
    /\ UNCHANGED <<userSignedIn, section>>
    /\ UNCHANGED <<flowVars, dataVars>>

-----------------------------------------------------------------------------
(* Profiles and hint credits: user_profiles, hint_usage, useHintCredits *)

\* hint_credits_remaining of a new profile and after the daily reset.
InitialCredits == 20

\* Rows of hint_usage followed.
MaxUsage == 2

\* The profile initUserProfile inserts; stale stands for a last_credit_reset
\* that is one day old or older.
NewProfile ==
    [hint_credits_remaining |-> InitialCredits,
     stale |-> FALSE,
     problems_solved |-> 0,
     streak_days |-> 0,
     show_solutions_by_default |-> FALSE]

\* What the store answers to the calls of one operation, TRUE for success:
\* the profile select, the insert or daily-reset update getUserProfile issues,
\* the credit update and the hint_usage insert.
StoreOutcomes == [fetch : BOOLEAN, write : BOOLEAN, update : BOOLEAN, insert : BOOLEAN]

\* Every call succeeds.
AllOk == [fetch |-> TRUE, write |-> TRUE, update |-> TRUE, insert |-> TRUE]

\* refreshUserProfile issues the select and the insert only.
RefreshOutcomes == {o \in StoreOutcomes : o.update /\ o.insert}

\* The row of a non-empty result.
Row(data) == CHOOSE r \in data : TRUE

\* initUserProfile: rows is the table afterwards, data the returned profile
\* ({} for null).  The id is the primary key, so a second insert fails.
InitUserProfile(rows, ok) ==
    IF ok /\ rows = {}
    THEN [rows |-> {NewProfile}, data |-> {NewProfile}]
    ELSE [rows |-> rows, data |-> {}]

\* resetDailyCredits
ResetDailyCredits(rows, ok) ==
    IF ok /\ rows # {}
    THEN LET r == [Row(rows) EXCEPT !.hint_credits_remaining = InitialCredits,
                                    !.stale = FALSE]
         IN  [rows |-> {r}, data |-> {r}]
    ELSE [rows |-> rows, data |-> {}]

\* Mutant of NotFound: every failed lookup of an absent profile counts as "not found".
NotFoundOrError(rows, o) == rows = {}

\* The select reports "not found" (PGRST116).
NotFound(rows, o) == o.fetch /\ rows = {}

\* getUserProfile
GetUserProfile(rows, o) ==
    IF NotFound(rows, o) THEN InitUserProfile(rows, o.write)
    ELSE IF ~o.fetch THEN [rows |-> rows, data |-> {}]
    ELSE IF Row(rows).stale THEN ResetDailyCredits(rows, o.write)
    ELSE [rows |-> rows, data |-> rows]

\* Mutant of NoCredits: a profile with zero credits still has one.
CreditsBelowZero(credits) == credits < 0

\* profile.hint_credits_remaining <= 0
NoCredits(credits) == credits <= 0

\* A result without creditsRemaining.
Failure(error) == [success |-> FALSE, creditsRemaining |-> Null, error |-> error]

\* Mutant of Decremented: the credit is restored.
NotDecremented(credits) == credits

\* The credits useHintCredit writes for the profile it read.
Decremented(credits) == credits - 1

\* useHintCredit: the tables afterwards and the returned result.
UseHintCredit(rows, usage, o) ==
    LET g == GetUserProfile(rows, o)
    IN  IF g.data = {}
        THEN [rows |-> g.rows, usage |-> usage, result |-> Failure("User profile not found")]
        ELSE IF NoCredits(Row(g.data).hint_credits_remaining)
        THEN [rows |-> g.rows, usage |-> usage,
              result |-> [success |-> FALSE, creditsRemaining |-> 0,
                          error |-> "No hint credits remaining today"]]
        ELSE IF ~o.update
        THEN [rows |-> g.rows, usage |-> usage,
              result |-> Failure("Failed to update hint credits")]
        ELSE LET updated == [Row(g.rows) EXCEPT !.hint_credits_remaining =
                                Decremented(Row(g.data).hint_credits_remaining)]
             IN  [rows |-> {updated},
                  usage |-> IF o.insert THEN usage + 1 ELSE usage,
                  result |-> [success |-> TRUE,
                              creditsRemaining |-> updated.hint_credits_remaining,
                              error |-> ""]]

\* refreshUserProfile of the user context: a profile that is not found is created.
RefreshUserProfile(rows, o) ==
    IF NotFound(rows, o) THEN InitUserProfile(rows, o.write).rows ELSE rows

\* The profile refreshUserProfile hands to setUserProfile ({} for none).
SetUserProfile(rows, o) ==
    IF NotFound(rows, o) THEN InitUserProfile(rows, o.write).data
    ELSE IF ~o.fetch THEN {}
    ELSE rows

\* What lastCall records (the store outcomes only for the direct calls).
CallRecord(op, called, o, result, data) ==
    [op |-> op, signedIn |-> userSignedIn, called |-> called, outcome |-> o,
     profiles |-> user_profiles, usage |-> hint_usage, result |-> result, data |-> data]

NoResult == Failure("")

\* A caller invokes getUserProfile.
GetUserProfileCall ==
    /\ \E o \in StoreOutcomes :
          LET g == GetUserProfile(user_profiles, o)
          IN  /\ user_profiles' = g.rows
              /\ lastCall' = CallRecord("getUserProfile", TRUE, o, NoResult, g.data)
    /\ UNCHANGED hint_usage
    /\ UNCHANGED <<flowVars, revealVars, progressVars, queryVars, moreVars>>

\* The user context refreshes the profile of the signed-in user.
RefreshUserProfileCall ==
    /\ userSignedIn
    /\ \E o \in RefreshOutcomes :
          /\ user_profiles' = RefreshUserProfile(user_profiles, o)
          /\ lastCall' = CallRecord("refreshUserProfile", TRUE, o, NoResult,
                                    SetUserProfile(user_profiles, o))
    /\ UNCHANGED hint_usage
    /\ UNCHANGED <<flowVars, revealVars, progressVars, queryVars, moreVars>>

\* A caller invokes useHintCredit.
UseHintCreditCall ==
    /\ hint_usage < MaxUsage
    /\ \E o \in StoreOutcomes :
          LET u == UseHintCredit(user_profiles, hint_usage, o)
          IN  /\ user_profiles' = u.rows
              /\ hint_usage' = u.usage
              /\ lastCall' = CallRecord("useHintCredit", TRUE, o, u.result, {})
    /\ UNCHANGED <<flowVars, revealVars, progressVars, queryVars, moreVars>>

\* Mutant of UseHint: the user is not tested.
UseHintUnguarded ==
    /\ hint_usage < MaxUsage
    /\ \E o \in StoreOutcomes, refresh \in RefreshOutcomes :
          LET u == UseHintCredit(user_profiles, hint_usage, o)
          IN  /\ user_profiles' = RefreshUserProfile(u.rows, refresh)
              /\ hint_usage' = u.usage
              /\ lastCall' = CallRecord("useHint", TRUE, AllOk, u.result, {})
    /\ UNCHANGED <<flowVars, revealVars, progressVars, queryVars, moreVars>>

\* useHint of the useHintCredits hook; with a user it ends by refreshing the profile.
UseHint ==
    /\ hint_usage < MaxUsage
    /\ IF ~userSignedIn
       THEN /\ lastCall' = CallRecord("useHint", FALSE, AllOk,
                                      Failure("User not authenticated"), {})
            /\ UNCHANGED <<user_profiles, hint_usage>>
       ELSE \E o \in StoreOutcomes, refresh \in RefreshOutcomes :
               LET u == UseHintCredit(user_profiles, hint_usage, o)
               IN  /\ user_profiles' = RefreshUserProfile(u.rows, refresh)
                   /\ hint_usage' = u.usage
                   /\ lastCall' = CallRecord("useHint", TRUE, AllOk, u.result, {})
    /\ UNCHANGED <<flowVars, revealVars, progressVars, queryVars, moreVars>>

\* A day passes since the last credit reset.
DayPasses ==
    /\ user_profiles # {}
    /\ ~Row(user_profiles).stale
    /\ user_profiles' = {[Row(user_profiles) EXCEPT !.stale = TRUE]}
    /\ UNCHANGED <<hint_usage, lastCall>>
    /\ UNCHANGED <<flowVars, revealVars, progressVars, queryVars, moreVars>>

-----------------------------------------------------------------------------
(* Learning progress: updateLearningProgressFromReveal *)

\* Problems of the category, sections of a problem and rows in the window followed.
MaxProblems == 2
MaxSections == 3
MaxRows == 3

\* problems_solved values followed.
MaxSolved == 2

\* avg_reveal_level without a reveal in the window.
DefaultAvg == 5

\* The key of a code_reveals row: the problem and the section (section_type,
\* section_index).
RowKeys == (1..MaxProblems) \X (1..MaxSections)

\* reveal_level with satisfied_at_level null or at that level.
RowLevels == {<<l, s>> \in (1..MaxLevel) \X ({Null} \cup (1..MaxLevel)) : s \in {Null, l}}

\* A code_reveals row as the query selects it.
RevealRow(key, levels) ==
    [problem_id |-> key[1], section |-> key[2],
     reveal_level |-> levels[1], satisfied_at_level |-> levels[2]]

\* Key sets of up to MaxRows rows; problems and the sections of a problem are
\* numbered from 1 without gaps (which key a row has does not enter the computation).
KeySets ==
    {K \in SUBSET RowKeys :
        /\ Cardinality(K) <= MaxRows
        /\ \A k \in K : (k[2] > 1) => (<<k[1], k[2] - 1>> \in K)
        /\ \A k \in K : (k[1] > 1) => (<<k[1] - 1, 1>> \in K)}

\* The table with one row for each key of K, at the levels f[k].
RevealTable(K, f) == {RevealRow(k, f[k]) : k \in K}

\* The orders in which the store can return the rows (the query has no ORDER BY).
RECURSIVE Orders(_)
Orders(rows) ==
    IF rows = {} THEN {<<>>}
    ELSE UNION {{<<r>> \o rest : rest \in Orders(rows \ {r})} : r \in rows}

\* reveal.satisfied_at_level || reveal.reveal_level
EffectiveLevel(reveal) ==
    IF reveal.satisfied_at_level # Null /\ reveal.satisfied_at_level # 0
    THEN reveal.satisfied_at_level
    ELSE reveal.reveal_level

\* The forEach over recentReveals: the first row of each problem is counted.
RECURSIVE SumReveals(_, _, _)
SumReveals(recentReveals, i, acc) ==
    IF i > Len(recentReveals) THEN acc
    ELSE LET reveal == recentReveals[i]
         IN  IF reveal.problem_id \in acc.uniqueProblems
             THEN SumReveals(recentReveals, i + 1, acc)
             ELSE SumReveals(recentReveals, i + 1,
                     [uniqueProblems |-> acc.uniqueProblems \cup {reveal.problem_id},
                      totalRevealLevel |-> acc.totalRevealLevel + EffectiveLevel(reveal),
                      totalProblems |-> acc.totalProblems + 1])

\* avgRevealLevel as the quotient total / problems.
AvgRevealLevel(recentReveals) ==
    LET acc == SumReveals(recentReveals, 1,
                          [uniqueProblems |-> {}, totalRevealLevel |-> 0, totalProblems |-> 0])
    IN  IF acc.totalProblems > 0
        THEN [total |-> acc.totalRevealLevel, problems |-> acc.totalProblems]
        ELSE [total |-> DefaultAvg, problems |-> 1]

UniqueProblems(recentReveals) == {recentReveals[i].problem_id : i \in 1..Len(recentReveals)}

\* updateLearningProgressFromReveal on the learning_progress rows of the category.
UpdateLearningProgressFromReveal(progress, recentReveals, satisfied, outcome) ==
    IF outcome # "ok" THEN progress
    ELSE IF progress = {}
    THEN {[problems_attempted |-> 1,
           problems_solved |-> IF satisfied THEN 1 ELSE 0,
           avg_reveal_level |-> AvgRevealLevel(recentReveals)]}
    ELSE {[Row(progress) EXCEPT
              !.problems_attempted = Cardinality(UniqueProblems(recentReveals)),
              !.problems_solved = @ + (IF satisfied THEN 1 ELSE 0),
              !.avg_reveal_level = AvgRevealLevel(recentReveals)]}

\* trackCodeReveal ends by recomputing the progress of the problem's category.
UpdateProgress ==
    /\ \E order \in Orders(reveal_rows), satisfied \in BOOLEAN, outcome \in Outcomes :
          /\ satisfied /\ learning_progress # {}
             => Row(learning_progress).problems_solved < MaxSolved
          /\ learning_progress' =
                UpdateLearningProgressFromReveal(learning_progress, order, satisfied, outcome)
    /\ UNCHANGED reveal_rows
    /\ UNCHANGED <<flowVars, revealVars, creditVars, queryVars, moreVars>>

-----------------------------------------------------------------------------
(* trackCodeReveal calls that overlap *)

\* Calls that can be in flight together and calls followed.
MaxCallers == 2
MaxTracked == 3

Callers == 1..MaxCallers

\* A caller without a call in flight.
Idle == [pc |-> "idle", key |-> 0, revealLevel |-> 0, satisfiedAtLevel |-> Null,
         found |-> FALSE, existing |-> Single({}, 0)]

\* No call yet; uniqueKey tells whether the table rejects a second row for a key
\* (the schema is not part of the sources).
NoCalls(uniqueKey) ==
    [started |-> 0, overlapped |-> FALSE, uniqueKey |-> uniqueKey,
     submitted |-> [k \in Keys |-> 0]]

\* The select of trackCodeReveal has answered: existingRecord is kept by the call.
ReadExisting(rows, key, revealLevel, satisfiedAtLevel) ==
    [pc |-> "read", key |-> key, revealLevel |-> revealLevel,
     satisfiedAtLevel |-> satisfiedAtLevel,
     found |-> HasSingle(rows, key), existing |-> Single(rows, key)]

\* update(fields).eq('id', existingRecord.id)
UpdateById(rows, id, revealLevel, satisfiedAtLevel, withLevel) ==
    {IF r.id # id THEN r
     ELSE IF withLevel
          THEN LevelUpdate(r, revealLevel, satisfiedAtLevel)
          ELSE [r EXCEPT !.satisfied_at_level = satisfiedAtLevel] : r \in rows}

\* The write trackCodeReveal issues for the record it has read.
WriteCodeReveal(rows, call, uniqueKey) ==
    IF ~call.found
    THEN IF uniqueKey /\ MatchingRows(rows, call.key) # {} THEN rows
         ELSE rows \cup {[id |-> Cardinality(rows) + 1,
                          key |-> call.key,
                          reveal_level |-> call.revealLevel,
                          satisfied_at_level |-> call.satisfiedAtLevel]}
    ELSE IF LevelIncreased(call.existing, call.revealLevel)
    THEN UpdateById(rows, call.existing.id, call.revealLevel, call.satisfiedAtLevel, TRUE)
    ELSE IF call.satisfiedAtLevel # Null /\ call.existing.satisfied_at_level = Null
    THEN UpdateById(rows, call.existing.id, call.revealLevel, call.satisfiedAtLevel, FALSE)
    ELSE rows

\* The code_reveals rows as updateLearningProgressFromReveal selects them.
RecentReveals(rows) ==
    {[problem_id |-> r.key, section |-> r.id, reveal_level |-> r.reveal_level,
      satisfied_at_level |-> r.satisfied_at_level] : r \in rows}

\* A caller starts trackCodeReveal and the select answers.
TrackRead(c) ==
    /\ inflight[c].pc = "idle"
    /\ tracker.started < MaxTracked
    /\ \E key \in Keys, revealLevel \in 1..MaxLevel :
          \E satisfiedAtLevel \in {Null, revealLevel} :
             /\ inflight' = [inflight EXCEPT ![c] =
                   ReadExisting(code_reveals, key, revealLevel, satisfiedAtLevel)]
             /\ tracker' = [tracker EXCEPT
                   !.started = @ + 1,
                   !.overlapped = @ \/ \E d \in Callers : inflight[d].pc # "idle",
                   !.submitted[key] = IF @ < revealLevel THEN revealLevel ELSE @]
    /\ UNCHANGED <<code_reveals, learning_progress>>
    /\ UNCHANGED <<flowVars, userSignedIn, section, calls, creditVars, reveal_rows,
                   queryVars, explainVars, hintCallVars, provider>>

\* The write of the call is answered and the progress of the category is recomputed.
TrackWrite(c) ==
    /\ inflight[c].pc = "read"
    /\ LET rows == WriteCodeReveal(code_reveals, inflight[c], tracker.uniqueKey)
       IN  /\ code_reveals' = rows
           /\ \E order \in Orders(RecentReveals(rows)) :
                 /\ inflight[c].satisfiedAtLevel # Null /\ learning_progress # {}
                    => Row(learning_progress).problems_solved <= MaxTracked
                 /\ learning_progress' =
                       UpdateLearningProgressFromReveal(learning_progress, order,
                          inflight[c].satisfiedAtLevel # Null, "ok")
    /\ inflight' = [inflight EXCEPT ![c] = Idle]
    /\ UNCHANGED tracker
    /\ UNCHANGED <<flowVars, userSignedIn, section, calls, creditVars, reveal_rows,
                   queryVars, explainVars, hintCallVars, provider>>

-----------------------------------------------------------------------------
(* useHintCredit calls that overlap *)

\* useHintCredit calls followed.
MaxHintCalls == 3

\* A caller with no useHintCredit call in flight.
NoHintCall == [pc |-> "idle", credits |-> 0]

\* No call was made: started counts the calls, successes those whose decrement
\* succeeded since the last daily reset.
NoHintCalls == [started |-> 0, successes |-> 0, overlapped |-> FALSE]

\* The daily reset ran in this getUserProfile.
WasReset(rows, g) == rows # {} /\ Row(rows).stale /\ g.data # {}

\* A caller starts useHintCredit: the profile is read and the credits are tested.
HintRead(c) ==
    /\ pending[c].pc = "idle"
    /\ ledger.started < MaxHintCalls
    /\ \E o \in StoreOutcomes :
          LET g == GetUserProfile(user_profiles, o)
              goesOn == g.data # {} /\ ~NoCredits(Row(g.data).hint_credits_remaining)
          IN  /\ user_profiles' = g.rows
              /\ pending' = [pending EXCEPT ![c] =
                    IF goesOn
                    THEN [pc |-> "read", credits |-> Row(g.data).hint_credits_remaining]
                    ELSE NoHintCall]
              /\ ledger' = [ledger EXCEPT
                    !.started = @ + 1,
                    !.successes = IF WasReset(user_profiles, g) THEN 0 ELSE @,
                    !.overlapped = @ \/ \E d \in Callers : pending[d].pc # "idle"]
    /\ UNCHANGED <<hint_usage, lastCall>>
    /\ UNCHANGED <<flowVars, revealVars, progressVars, queryVars, explainVars, trackVars,
                   provider>>

\* The update of the credits is answered: the call fails, or it has succeeded
\* and goes on to record the usage.
HintUpdate(c) ==
    /\ pending[c].pc = "read"
    /\ \E ok \in BOOLEAN :
          IF ok
          THEN /\ user_profiles' = {[Row(user_profiles) EXCEPT !.hint_credits_remaining =
                                        Decremented(pending[c].credits)]}
               /\ pending' = [pending EXCEPT ![c].pc = "updated"]
               /\ ledger' = [ledger EXCEPT !.successes = @ + 1]
          ELSE /\ pending' = [pending EXCEPT ![c] = NoHintCall]
               /\ UNCHANGED <<user_profiles, ledger>>
    /\ UNCHANGED <<hint_usage, lastCall>>
    /\ UNCHANGED <<flowVars, revealVars, progressVars, queryVars, explainVars, trackVars,
                   provider>>

\* The insert of the hint_usage row is answered and the call returns success.
HintInsert(c) ==
    /\ pending[c].pc = "updated"
    /\ \E ok \in BOOLEAN : hint_usage' = IF ok THEN hint_usage + 1 ELSE hint_usage
    /\ pending' = [pending EXCEPT ![c] = NoHintCall]
    /\ UNCHANGED <<user_profiles, lastCall, ledger>>
    /\ UNCHANGED <<flowVars, revealVars, progressVars, queryVars, explainVars, trackVars,
                   provider>>

-----------------------------------------------------------------------------
(* UserProvider: the profile of the signed-in user *)

\* Auth state changes and profile loads followed.
MaxAuthEvents == 2
MaxLoads == 2

\* The provider after its first render: session tells whether the auth session
\* has a user, loads counts the refreshUserProfile calls awaiting getUserProfile.
Mounted(session) ==
    [session |-> session, getSession |-> "pending", events |-> 0,
     user |-> FALSE, userProfile |-> {}, isLoadingProfile |-> TRUE, loads |-> 0]

\* The user state the callbacks of the mount effect close over: the effect runs
\* once, so they call the refreshUserProfile of the first render.
MountUser == FALSE

\* refreshUserProfile up to its await, called through a closure that sees closureUser.
RefreshStarted(p, closureUser) ==
    IF ~closureUser THEN p
    ELSE [p EXCEPT !.isLoadingProfile = TRUE, !.loads = @ + 1]

\* The getSession promise of the mount effect resolves.
SessionResolved ==
    /\ provider.getSession = "pending"
    /\ provider' =
          LET p == [provider EXCEPT !.getSession = "done", !.user = provider.session]
          IN  IF provider.session THEN RefreshStarted(p, MountUser)
              ELSE [p EXCEPT !.isLoadingProfile = FALSE]
    /\ UNCHANGED <<flowVars, revealVars, creditVars, progressVars, queryVars, explainVars,
                   trackVars, hintCallVars>>

\* The auth state changes and the onAuthStateChange callback runs.
AuthStateChanged ==
    /\ provider.events < MaxAuthEvents
    /\ \E session \in BOOLEAN :
          provider' =
             LET p == [provider EXCEPT !.session = session, !.events = @ + 1,
                                       !.user = session]
             IN  IF session THEN RefreshStarted(p, MountUser)
                 ELSE [p EXCEPT !.userProfile = {}]
    /\ UNCHANGED <<flowVars, revealVars, creditVars, progressVars, queryVars, explainVars,
                   trackVars, hintCallVars>>

\* A consumer of the context calls the refreshUserProfile of the current render.
ContextRefresh ==
    /\ provider.loads < MaxLoads
    /\ provider.user
    /\ provider' = RefreshStarted(provider, provider.user)
    /\ UNCHANGED <<flowVars, revealVars, creditVars, progressVars, queryVars, explainVars,
                   trackVars, hintCallVars>>

\* getUserProfile answers a refreshUserProfile: the profile is set and loading ends.
ProfileLoaded ==
    /\ provider.loads > 0
    /\ \E o \in StoreOutcomes :
          LET g == GetUserProfile(user_profiles, o)
          IN  /\ user_profiles' = g.rows
              /\ provider' = [provider EXCEPT !.userProfile = g.data,
                                              !.isLoadingProfile = FALSE,
                                              !.loads = @ - 1]
    /\ UNCHANGED <<hint_usage, lastCall>>
    /\ UNCHANGED <<flowVars, revealVars, progressVars, queryVars, explainVars,
                   trackVars, hintCallVars>>

\* DashboardPage shows its loading screen.
DashboardLoading == provider.isLoadingProfile

-----------------------------------------------------------------------------
(* Dashboard queries: getRecommendedCategories *)

\* Categories and problems_attempted values followed.
MaxCategories == 3
MaxAttempted == 1

\* The threshold of focus_reason.
HelpThreshold == 3

\* avg_reveal_level values followed: the whole levels.
AvgValues == {[total |-> t, problems |-> 1] : t \in 1..MaxLevel}

\* a > b for quotients
GreaterAvg(a, b) == a.total * b.problems > b.total * a.problems

\* A learning_progress table of one user: one row for each category of C, with
\* problems_attempted f[c][1] and avg_reveal_level f[c][2].
ProgressTable(C, f) ==
    {[category |-> c, problems_attempted |-> f[c][1], problems_solved |-> 0,
      avg_reveal_level |-> f[c][2]] : c \in C}

\* The orders the store can return for .order('avg_reveal_level', {ascending: false}).
OrdersDescending(rows) ==
    {f \in Orders(rows) :
        \A i, j \in 1..Len(f) :
            i < j => ~GreaterAvg(f[j].avg_reveal_level, f[i].avg_reveal_level)}

\* Mutant of Attempted: every entry passes the filter.
AttemptedOrNot(entry) == TRUE

\* entry.problems_attempted > 0
Attempted(entry) == entry.problems_attempted > 0

\* The object the map builds for an entry.
Recommendation(entry) ==
    [category |-> entry.category,
     avg_reveal_level |-> entry.avg_reveal_level,
     problems_attempted |-> entry.problems_attempted,
     problems_solved |-> entry.problems_solved,
     focus_reason |-> IF GreaterAvg(entry.avg_reveal_level,
                                    [total |-> HelpThreshold, problems |-> 1])
                      THEN "more help" ELSE "good progress"]

\* One step of the stable sort with comparator b.avg_reveal_level - a.avg_reveal_level:
\* x goes before the first element with a smaller average.
InsertDescending(sorted, x) ==
    LET smaller == {i \in 1..Len(sorted) :
                       GreaterAvg(x.avg_reveal_level, sorted[i].avg_reveal_level)}
        at == IF smaller = {} THEN Len(sorted) + 1
              ELSE CHOOSE i \in smaller : \A j \in smaller : i <= j
    IN  SubSeq(sorted, 1, at - 1) \o <<x>> \o SubSeq(sorted, at, Len(sorted))

RECURSIVE SortDescending(_)
SortDescending(entries) ==
    IF entries = <<>> THEN <<>>
    ELSE InsertDescending(SortDescending(SubSeq(entries, 1, Len(entries) - 1)),
                          entries[Len(entries)])

RECURSIVE MapRecommendation(_)
MapRecommendation(entries) ==
    IF entries = <<>> THEN <<>>
    ELSE <<Recommendation(Head(entries))>> \o MapRecommendation(Tail(entries))

\* What a query function returns: value, or null (ok FALSE) after a store error.
Returned(op, ok, value) == [op |-> op, ok |-> ok, value |-> value]

\* getRecommendedCategories for the rows in the order the store returned them.
GetRecommendedCategories(progressData, ok) ==
    IF ~ok THEN Returned("getRecommendedCategories", FALSE, <<>>)
    ELSE Returned("getRecommendedCategories", TRUE,
                  SortDescending(MapRecommendation(SelectSeq(progressData, Attempted))))

\* The dashboard asks for the recommended categories.
Recommend ==
    /\ \E progressData \in OrdersDescending(stored), ok \in BOOLEAN :
          returned' = GetRecommendedCategories(progressData, ok)
    /\ UNCHANGED stored
    /\ UNCHANGED <<flowVars, revealVars, creditVars, progressVars, moreVars>>

-----------------------------------------------------------------------------
(* Dashboard queries: getUserLearningTrend *)

\* Reveal events and days followed.  Day 0 is Wednesday 31 December 2025; the
\* events are created at noon.
MaxEvents == 2
MaxDay == 2

\* Days of the week in the week-number computation.
DaysPerWeek == 7

Timeframes == {"week", "month", "all"}

\* Days since 1 January 2025 of the day created_at.
DaysSince2025(created_at) == 364 + created_at

\* date.getFullYear()
FullYear(created_at) == 2025 + (DaysSince2025(created_at) \div 365)

\* Days from 1 January of the year to the day of the date.
DayOfYear(created_at) == DaysSince2025(created_at) % 365

\* First day of each month counted from 1 January.
MonthStarts == <<0, 31, 59, 90, 120, 151, 181, 212, 243, 273, 304, 334>>

\* date.getMonth() + 1
MonthOf(created_at) ==
    Cardinality({m \in 1..Len(MonthStarts) : MonthStarts[m] <= DayOfYear(created_at)})

\* Math.ceil((date - new Date(year, 0, 1)) / (7 days)) at noon of the day.
WeekNumber(created_at) ==
    (2 * DayOfYear(created_at) + 1 + (2 * DaysPerWeek - 1)) \div (2 * DaysPerWeek)

\* timeKey: `${year}-W${weekNumber}` or `${year}-${month}`
TimeKey(created_at, timeframe) ==
    IF timeframe = "week"
    THEN [year |-> FullYear(created_at), unit |-> "W", number |-> WeekNumber(created_at)]
    ELSE [year |-> FullYear(created_at), unit |-> "M", number |-> MonthOf(created_at)]

\* problem_category of the problem a reveal belongs to.
CategoryOf(problem_id) == IF problem_id = 1 THEN "Array" ELSE "Graph"

\* A code_reveals row with its created_at.
TrendRow(key, levels, created_at) ==
    [problem_id |-> key[1], section |-> key[2],
     reveal_level |-> levels[1], satisfied_at_level |-> levels[2],
     created_at |-> created_at]

\* The events followed were revealed to the first or to the last level.
TrendLevels == {lv \in RowLevels : lv[1] \in {1, MaxLevel}}

\* The table with one event for each key of K.
TrendTable(K, f) == {TrendRow(k, f[k][1], f[k][2]) : k \in K}

\* Mutant of OrdersAscending: the store returns the rows in any order.
OrdersAny(rows) == Orders(rows)

\* The orders the store can return for .order('created_at', {ascending: true}).
OrdersAscending(rows) ==
    {f \in Orders(rows) : \A i, j \in 1..Len(f) : i < j => f[i].created_at <= f[j].created_at}

\* Index of the element of a sequence of records whose field has the value, 0 if none.
IndexOf(seq, field, value) ==
    LET found == {i \in 1..Len(seq) : seq[i][field] = value}
    IN  IF found = {} THEN 0 ELSE CHOOSE i \in found : TRUE

\* Mutant of AddTotals: the totals keep the last reveal only.
KeepLastTotals(entry, reveal) ==
    [entry EXCEPT !.problems = @ \cup {reveal.problem_id},
                  !.total_reveal_level = EffectiveLevel(reveal),
                  !.total_reveals = 1]

\* The three accumulators of a segment or of a category of a segment.
AddTotals(entry, reveal) ==
    [entry EXCEPT !.problems = @ \cup {reveal.problem_id},
                  !.total_reveal_level = @ + EffectiveLevel(reveal),
                  !.total_reveals = @ + 1]

\* Track by category: the categories of a segment in the order they were first met.
AddToCategories(categories, reveal) ==
    LET category == CategoryOf(reveal.problem_id)
        at == IndexOf(categories, "category", category)
        fresh == [category |-> category, problems |-> {},
                  total_reveal_level |-> 0, total_reveals |-> 0]
    IN  IF at = 0
        THEN Append(categories, AddTotals(fresh, reveal))
        ELSE [categories EXCEPT ![at] = AddTotals(@, reveal)]

\* One iteration of reveals.forEach: the segments in the order their keys were inserted.
AddToSegments(timeSegments, reveal, timeframe) ==
    LET timeKey == TimeKey(reveal.created_at, timeframe)
        at == IndexOf(timeSegments, "period", timeKey)
        fresh == [period |-> timeKey, problems |-> {}, total_reveal_level |-> 0,
                  total_reveals |-> 0, categories |-> <<>>]
        segment == IF at = 0 THEN fresh ELSE timeSegments[at]
        updated == [AddTotals(segment, reveal) EXCEPT
                       !.categories = AddToCategories(@, reveal)]
    IN  IF at = 0 THEN Append(timeSegments, updated)
        ELSE [timeSegments EXCEPT ![at] = updated]

RECURSIVE GroupReveals(_, _, _)
GroupReveals(reveals, timeframe, timeSegments) ==
    IF reveals = <<>> THEN timeSegments
    ELSE GroupReveals(Tail(reveals), timeframe,
                      AddToSegments(timeSegments, Head(reveals), timeframe))

\* total_reveals > 0 ? total_reveal_level / total_reveals : 0
AverageOf(entry) ==
    IF entry.total_reveals > 0
    THEN [total |-> entry.total_reveal_level, problems |-> entry.total_reveals]
    ELSE [total |-> 0, problems |-> 1]

CategoryData(categories) ==
    [i \in 1..Len(categories) |->
        [category |-> categories[i].category,
         problems_count |-> Cardinality(categories[i].problems),
         avg_reveal_level |-> AverageOf(categories[i])]]

\* Object.values(timeSegments).map(...)
TrendData(timeSegments) ==
    [i \in 1..Len(timeSegments) |->
        [period |-> timeSegments[i].period,
         problems_count |-> Cardinality(timeSegments[i].problems),
         avg_reveal_level |-> AverageOf(timeSegments[i]),
         categories |-> CategoryData(timeSegments[i].categories)]]

\* getUserLearningTrend for the reveals in the order the store returned them.
GetUserLearningTrend(reveals, timeframe, ok) ==
    IF ~ok
    THEN Returned("getUserLearningTrend", FALSE, <<>>)
    ELSE Returned("getUserLearningTrend", TRUE,
                  [timeframe |-> timeframe,
                   trendData |-> TrendData(GroupReveals(reveals, timeframe, <<>>))])

\* The dashboard asks for the learning trend.
Trend ==
    /\ \E reveals \in OrdersAscending(stored), timeframe \in Timeframes, ok \in BOOLEAN :
          returned' = GetUserLearningTrend(reveals, timeframe, ok)
    /\ UNCHANGED stored
    /\ UNCHANGED <<flowVars, revealVars, creditVars, progressVars, moreVars>>

-----------------------------------------------------------------------------
(* User explanation: problem_history and user_explanations *)

\* Rows of problem_history followed.
MaxHistory == 3

\* saveProblemToHistory: the table afterwards and the returned id (Null for null).
SaveProblemToHistory(history, ok) ==
    IF ok
    THEN [rows |-> history \cup {Cardinality(history) + 1}, id |-> Cardinality(history) + 1]
    ELSE [rows |-> history, id |-> Null]

\* saveUserExplanation: the table afterwards.
SaveUserExplanation(rows, problemId, explanation, isSkipped, ok) ==
    IF ok
    THEN rows \cup {[id |-> Cardinality(rows) + 1, problem_id |-> problemId,
                     explanation_text |-> explanation, is_skipped |-> isSkipped]}
    ELSE rows

\* What completion records: the handler, whether onComplete ran and its arguments.
Completion(handler, called, explanationSubmitted, explanation, problemId) ==
    [handler |-> handler, called |-> called, explanationSubmitted |-> explanationSubmitted,
     explanation |-> explanation, problemId |-> problemId]

NoCompletion == Completion("none", FALSE, FALSE, "", Null)

\* The body of handleSubmit / handleSkip for a signed-in user: both saves, then
\* onComplete with the stored id, or with a temp-<time> id when the first save failed.
SaveAndComplete(handler, explanation, isSkipped, savedProblem, savedExplanation) ==
    LET p == SaveProblemToHistory(problem_history, savedProblem)
    IN  /\ problem_history' = p.rows
        /\ user_explanations' =
              IF p.id = Null THEN user_explanations
              ELSE SaveUserExplanation(user_explanations, p.id, explanation, isSkipped,
                                       savedExplanation)
        /\ completion' = Completion(handler, TRUE, ~isSkipped, explanation,
                                    IF p.id = Null THEN "temp" ELSE p.id)

\* UserExplanation.handleSubmit with an explanation of five characters or more.
HandleSubmit ==
    /\ Cardinality(problem_history) < MaxHistory
    /\ IF ~userSignedIn
       THEN /\ completion' = Completion("handleSubmit", FALSE, FALSE, "", Null)
            /\ UNCHANGED <<problem_history, user_explanations>>
       ELSE \E savedProblem, savedExplanation \in BOOLEAN :
               SaveAndComplete("handleSubmit", "text", FALSE, savedProblem, savedExplanation)
    /\ UNCHANGED <<flowVars, code_reveals, section, calls, userSignedIn>>
    /\ UNCHANGED <<creditVars, progressVars, queryVars, trackVars, hintCallVars, provider>>

\* UserExplanation.handleSkip
HandleSkip ==
    /\ Cardinality(problem_history) < MaxHistory
    /\ IF ~userSignedIn
       THEN /\ completion' = Completion("handleSkip", TRUE, FALSE, "", "temp")
            /\ UNCHANGED <<problem_history, user_explanations>>
       ELSE \E savedProblem, savedExplanation \in BOOLEAN :
               SaveAndComplete("handleSkip", "", TRUE, savedProblem, savedExplanation)
    /\ UNCHANGED <<flowVars, code_reveals, section, calls, userSignedIn>>
    /\ UNCHANGED <<creditVars, progressVars, queryVars, trackVars, hintCallVars, provider>>

-----------------------------------------------------------------------------
(* Prefix reveal: getVisibleLines of BlurredCodeSection *)

\* Lines of the longest content followed.
MaxLines == 20

\* REVEAL_LEVELS[i].percentage
RevealPercentages == <<20, 40, 60, 80, 100>>

\* code.split('\n') of a content of n lines, each line standing for its number.
CodeLines(n) == [i \in 1..n |-> i]

\* Mutant of VisibleLineCount: the count is rounded down.
VisibleLineCountFloor(percentage, totalLines) == (percentage * totalLines) \div 100

\* Math.ceil((percentage / 100) * totalLines)
VisibleLineCount(percentage, totalLines) == (percentage * totalLines + 99) \div 100

\* getVisibleLines; slice(0, k) stops at the end of the array.
GetVisibleLines(codeLines, revealLevel) ==
    IF revealLevel = 0 THEN <<>>
    ELSE SubSeq(codeLines, 1,
                Min(VisibleLineCount(RevealPercentages[revealLevel], Len(codeLines)),
                    Len(codeLines)))

\* The section renders at some reveal level.
RenderSection ==
    /\ \E revealLevel \in 0..MaxLevel :
          returned' = Returned("getVisibleLines", TRUE,
                               [revealLevel |-> revealLevel,
                                visibleLines |-> GetVisibleLines(stored, revealLevel)])
    /\ UNCHANGED stored
    /\ UNCHANGED <<flowVars, revealVars, creditVars, progressVars, moreVars>>

-----------------------------------------------------------------------------
(* Specifications *)

InitFlow ==
    /\ view = "queue"
    /\ queryCache = EmptyCache
    /\ solutions = InitialSolutions
    /\ effectPending = FALSE
    /\ pendingExplanation = "none"
    /\ toast = "none"
    /\ last = [event |-> "none", view |-> "queue", queryCache |-> EmptyCache,
               solutions |-> InitialSolutions]

InitReveal ==
    /\ userSignedIn = TRUE
    /\ code_reveals = {}
    /\ section = InitialSection(1)
    /\ calls = [reveals |-> 0, marks |-> 0, track |-> NoCall]

InitCredits ==
    /\ user_profiles = {}
    /\ hint_usage = 0
    /\ lastCall = [op |-> "none", signedIn |-> TRUE, called |-> FALSE, outcome |-> AllOk,
                   profiles |-> {}, usage |-> 0, result |-> NoResult, data |-> {}]

InitProgress ==
    /\ reveal_rows = {}
    /\ learning_progress = {}

InitQuery ==
    /\ stored = {}
    /\ returned = Returned("none", FALSE, <<>>)

InitExplain ==
    /\ problem_history = {}
    /\ user_explanations = {}
    /\ completion = NoCompletion

InitTrack ==
    /\ inflight = [c \in Callers |-> Idle]
    /\ tracker = NoCalls(FALSE)

InitHintCalls ==
    /\ pending = [c \in Callers |-> NoHintCall]
    /\ ledger = NoHintCalls

InitProvider == provider = Mounted(TRUE)

InitMore == InitExplain /\ InitTrack /\ InitHintCalls /\ InitProvider

Init == InitFlow /\ InitReveal /\ InitCredits /\ InitProgress /\ InitQuery /\ InitMore

\* Any learning_progress table of the user.
InitProgressTables ==
    /\ InitFlow /\ InitReveal /\ InitCredits /\ InitProgress /\ InitMore
    /\ \E C \in SUBSET (1..MaxCategories) :
          \E f \in [C -> (0..MaxAttempted) \X AvgValues] : stored = ProgressTable(C, f)
    /\ returned = Returned("none", FALSE, <<>>)

\* Any table of reveal rows in the window.
InitRevealTables ==
    /\ InitFlow /\ InitReveal /\ InitCredits /\ InitQuery /\ InitMore
    /\ \E K \in KeySets : \E f \in [K -> RowLevels] : reveal_rows = RevealTable(K, f)
    /\ learning_progress = {}

\* Session flow.
Next ==
    \/ SolutionStart
    \/ ProblemExtracted
    \/ SolutionError
    \/ SolutionSuccess
    \/ DebugSuccess
    \/ ProcessingNoScreenshots
    \/ ScreenshotTaken
    \/ ResetView
    \/ Unauthorized
    \/ ClickExplanation
    \/ ExplanationComplete
    \/ FlushEffects

Spec == Init /\ [][Next]_vars

\* React runs a pending passive effect.
FairSpec == Spec /\ WF_vars(FlushEffects)

\* Session flow with cache events from outside the handlers.
NextCache == Next \/ CacheEvent

SpecCache == Init /\ [][NextCache]_vars

\* The code section as the user drives it.
NextSection == HandleRevealMore \/ HandleMarkSatisfied \/ MountSection \/ AuthChange

SpecSection == Init /\ [][NextSection]_vars

\* The code section and the hint hook with users signing in and out.
NextAuth == HandleRevealMore \/ HandleMarkSatisfied \/ AuthChange \/ UseHint

SpecAuth == Init /\ [][NextAuth]_vars

\* The profile and hint-credit helpers as their callers drive them.
NextCredits == GetUserProfileCall \/ RefreshUserProfileCall \/ UseHintCreditCall \/ DayPasses

SpecCredits == Init /\ [][NextCredits]_vars

\* The progress recomputation over a stored table of reveals.
NextProgress == UpdateProgress

SpecProgress == InitRevealTables /\ [][NextProgress]_vars

\* Any table of reveal events of the user inside the timeframe.
InitTrendTables ==
    /\ InitFlow /\ InitReveal /\ InitCredits /\ InitProgress /\ InitMore
    /\ \E K \in {K \in KeySets : Cardinality(K) <= MaxEvents} :
          \E f \in [K -> TrendLevels \X (0..MaxDay)] : stored = TrendTable(K, f)
    /\ returned = Returned("none", FALSE, <<>>)

\* The learning trend over a stored table of reveal events.
NextTrend == Trend

SpecTrend == InitTrendTables /\ [][NextTrend]_vars

\* The recommendations over a stored learning_progress table.
NextRecommend == Recommend

SpecRecommend == InitProgressTables /\ [][NextRecommend]_vars

\* The explanation step with users signing in and out.
NextExplain == HandleSubmit \/ HandleSkip \/ AuthChange

SpecExplain == Init /\ [][NextExplain]_vars

\* Any content of a code section.
InitContents ==
    /\ InitFlow /\ InitReveal /\ InitCredits /\ InitProgress /\ InitMore
    /\ \E n \in 1..MaxLines : stored = CodeLines(n)
    /\ returned = Returned("none", FALSE, <<>>)

\* The visible lines of a section over its reveal levels.
NextVisible == RenderSection

SpecVisible == InitContents /\ [][NextVisible]_vars

\* The table rejects a second row for a key, or it does not.
InitOverlap ==
    /\ InitFlow /\ InitReveal /\ InitCredits /\ InitProgress /\ InitQuery /\ InitExplain
    /\ InitHintCalls /\ InitProvider
    /\ inflight = [c \in Callers |-> Idle]
    /\ \E uniqueKey \in BOOLEAN : tracker = NoCalls(uniqueKey)

\* trackCodeReveal calls whose selects and writes interleave.
NextOverlap == \E c \in Callers : TrackRead(c) \/ TrackWrite(c)

SpecOverlap == InitOverlap /\ [][NextOverlap]_vars

\* useHintCredit calls whose reads and writes interleave, over the days.
NextHintOverlap ==
    \/ \E c \in Callers : HintRead(c) \/ HintUpdate(c) \/ HintInsert(c)
    \/ DayPasses

SpecHintOverlap == Init /\ [][NextHintOverlap]_vars

\* The provider is mounted with or without an auth session.
InitProviders ==
    /\ InitFlow /\ InitReveal /\ InitCredits /\ InitProgress /\ InitQuery
    /\ InitExplain /\ InitTrack /\ InitHintCalls
    /\ \E session \in BOOLEAN : provider = Mounted(session)

\* The provider, the auth service and the consumers of the context.
NextProvider ==
    SessionResolved \/ AuthStateChanged \/ ContextRefresh \/ ProfileLoaded \/ DayPasses

\* Promises that are pending are answered.
SpecProvider ==
    /\ InitProviders
    /\ [][NextProvider]_vars
    /\ WF_vars(SessionResolved)
    /\ WF_vars(ProfileLoaded)

\* The persistence helper as its callers drive it.
NextTrack == TrackCall

SpecTrack == Init /\ [][NextTrack]_vars

-----------------------------------------------------------------------------
(* Properties of the session flow *)

\* The handler `last` names started with Solutions mounted.
LastOnSolutions == last.view = "solutions"

\* The handler `last` names started in user_explanation with nothing submitted.
LastAwaitingExplanation ==
    /\ LastOnSolutions
    /\ last.solutions.currentStep = "user_explanation"
    /\ ~last.solutions.hasSubmittedExplanation

\* C1: while the machine awaits the explanation, a solution-success, debug-success,
\* solution-error, problem-extracted, screenshot-taken or no-screenshots event
\* leaves the step at user_explanation (only submit, skip and reset move it).
C1_OnlyExplanationLeaves ==
    ( /\ LastAwaitingExplanation
      /\ last.event \in {"solution-success", "debug-success", "solution-error",
                         "problem-extracted", "screenshot-taken", "no-screenshots"}
      /\ view = "solutions" )
    => solutions.currentStep = "user_explanation"

\* C6: a problem-extracted event that arrives in user_explanation,
\* generating_solution, solution_ready or debug leaves the step unchanged.
C6_ExtractionOnlyFromExtracting ==
    ( /\ LastOnSolutions
      /\ last.event = "problem-extracted"
      /\ last.solutions.currentStep # "extracting" )
    => solutions.currentStep = last.solutions.currentStep

GeneratingWithSolution ==
    /\ view = "solutions"
    /\ solutions.currentStep = "generating_solution"
    /\ Truthy(queryCache.solution)

ReadyOrLeft == solutions.currentStep = "solution_ready" \/ view = "queue"

C8_ResetClears ==
    last.event = "reset"
    => /\ solutions.currentStep = "extracting"
       /\ ~solutions.hasSubmittedExplanation
       /\ solutions.userExplanationText = ""
       /\ solutions.currentProblemId = ""
       /\ solutions.extraScreenshots = 0
       /\ queryCache.solution = "none"
       /\ queryCache.new_solution = "none"
       /\ ~Truthy(queryCache.problem_statement)

\* The part of C8 that holds: a reset that arrives while Solutions is mounted
\* clears all of it.
C8_ResetClearsWhenMounted == LastOnSolutions => C8_ResetClears

C10_SolutionError ==
    (last.event = "solution-error" /\ LastOnSolutions)
    => IF ~Truthy(last.queryCache.solution)
       THEN view = "queue"
       ELSE /\ view = "solutions"
            /\ solutions.solutionData = last.queryCache.solution
            /\ solutions.currentStep = last.solutions.currentStep

\* A solution-error arrived with a cached solution that was not displayed.
C10_Witness ==
    /\ last.event = "solution-error"
    /\ LastOnSolutions
    /\ Truthy(last.queryCache.solution)
    /\ last.solutions.solutionData = "null"
    /\ view = "solutions"
    /\ solutions.solutionData = "data"

\* C11: a cache update or invalidation of problem_statement, solution or
\* new_solution that the subscription observes while the machine awaits the
\* explanation leaves the step at user_explanation.
C11_CacheEventKeepsStep ==
    (last.event = "cache-event" /\ LastAwaitingExplanation)
    => /\ view = "solutions"
       /\ solutions.currentStep = "user_explanation"

\* A debug artifact was written to the cache while the machine awaited the explanation.
C11_Witness ==
    /\ last.event = "cache-event"
    /\ LastAwaitingExplanation
    /\ ~Truthy(last.queryCache.new_solution)
    /\ Truthy(queryCache.new_solution)
    /\ solutions.currentStep = "user_explanation"

-----------------------------------------------------------------------------
(* Properties of the reveal ladder *)

\* C2: after n handleRevealMore invocations by a signed-in user on a section
\* mounted at level 0, the section's level is min(0 + n, 5).
C2_RevealLadder == section.revealLevel = Min(calls.reveals, MaxLevel)

\* Stored satisfied_at_level of a key (Null without a row).
StoredSatisfied(rows, key) == Single(rows, key).satisfied_at_level

\* Stored reveal_level of a key (0 without a row).
StoredLevel(rows, key) == Single(rows, key).reveal_level

\* C3: a stored satisfied_at_level that is non-null is never set back to null or
\* to a lower value.
C3_SatisfiedNeverReduced ==
    [][\A key \in Keys :
          StoredSatisfied(code_reveals, key) # Null
          => /\ StoredSatisfied(code_reveals', key) # Null
             /\ StoredSatisfied(code_reveals', key) >= StoredSatisfied(code_reveals, key)]_vars

\* C4: a stored satisfied_at_level keeps the first level recorded.
C4_SatisfiedSticky ==
    [][\A key \in Keys :
          StoredSatisfied(code_reveals, key) # Null
          => StoredSatisfied(code_reveals', key) = StoredSatisfied(code_reveals, key)]_vars

\* C5: the stored reveal_level of a key never decreases over successive
\* trackCodeReveal calls.
C5_LevelMonotonic ==
    [][\A key \in Keys :
          StoredLevel(code_reveals', key) >= StoredLevel(code_reveals, key)]_vars

\* The last call carried a level below the stored one.
C5_Witness ==
    /\ calls.track.key \in Keys
    /\ calls.track.revealLevel < StoredLevel(code_reveals, calls.track.key)

-----------------------------------------------------------------------------
(* Properties of authentication, profiles and hint credits *)

\* C12: with no signed-in user handleRevealMore and handleMarkSatisfied leave the
\* code_reveals table, the reveal level and the satisfied flag unchanged, and
\* useHint returns success false without calling useHintCredit and without
\* changing a stored row.
C12_UnauthenticatedRejected ==
    [][~userSignedIn
       => /\ (HandleRevealMore \/ HandleMarkSatisfied)
             => UNCHANGED <<code_reveals, section>>
          /\ UseHint
             => /\ UNCHANGED <<user_profiles, hint_usage>>
                /\ ~lastCall'.called
                /\ ~lastCall'.result.success]_vars

\* useHint was rejected for a signed-out user who had revealed code before.
C12_Witness ==
    /\ ~userSignedIn
    /\ lastCall.op = "useHint"
    /\ ~lastCall.signedIn
    /\ lastCall.result.error = "User not authenticated"
    /\ code_reveals # {}
    /\ calls.marks > 0

-----------------------------------------------------------------------------
(* Properties of the learning progress *)

SameQuotient(a, b) == a.total * b.problems = b.total * a.problems

\* C13: recomputing the progress over the same stored reveal rows yields the
\* same avg_reveal_level, whatever order the store returns the rows in.
C13_AvgIdempotent ==
    [][(learning_progress # {} /\ learning_progress' # {})
       => SameQuotient(Row(learning_progress').avg_reveal_level,
                       Row(learning_progress).avg_reveal_level)]_vars

\* One problem with reveal rows at levels 2, 3 and 5, the last one satisfied.
C14_Rows ==
    {[problem_id |-> 1, section |-> 1, reveal_level |-> 2, satisfied_at_level |-> Null],
     [problem_id |-> 1, section |-> 2, reveal_level |-> 3, satisfied_at_level |-> Null],
     [problem_id |-> 1, section |-> 3, reveal_level |-> 5, satisfied_at_level |-> 5]}

\* C14: for that table the stored avg_reveal_level is (2+3+5)/3, above 3.
C14_GraphAverage ==
    (reveal_rows = C14_Rows /\ learning_progress # {})
    => LET avg == Row(learning_progress).avg_reveal_level
       IN  /\ SameQuotient(avg, [total |-> 2 + 3 + 5, problems |-> 3])
           /\ avg.total > 3 * avg.problems

-----------------------------------------------------------------------------
(* Properties of the dashboard queries *)

AttemptedRows == {r \in stored : r.problems_attempted > 0}

\* C15: the recommendations are exactly the stored categories with
\* problems_attempted > 0, each once and with its stored values, and every entry
\* has an avg_reveal_level greater than or equal to that of the entry after it.
C15_RecommendationsSorted ==
    (returned.op = "getRecommendedCategories" /\ returned.ok)
    => LET value == returned.value
       IN  /\ Len(value) = Cardinality(AttemptedRows)
           /\ \A r \in AttemptedRows :
                 \E i \in 1..Len(value) :
                    /\ value[i].category = r.category
                    /\ value[i].avg_reveal_level = r.avg_reveal_level
                    /\ value[i].problems_attempted = r.problems_attempted
           /\ \A i \in 1..(Len(value) - 1) :
                 ~GreaterAvg(value[i + 1].avg_reveal_level, value[i].avg_reveal_level)

\* Two categories with different averages were returned and a third, never
\* attempted, was left out.
C15_Witness ==
    /\ returned.op = "getRecommendedCategories"
    /\ returned.ok
    /\ Len(returned.value) = 2
    /\ GreaterAvg(returned.value[1].avg_reveal_level, returned.value[2].avg_reveal_level)
    /\ \E r \in stored : r.problems_attempted = 0

-----------------------------------------------------------------------------
(* Claims about getUserLearningTrend *)

\* A learning trend was computed from a successful query.
TrendReturned == returned.op = "getUserLearningTrend" /\ returned.ok

\* The ISO week (Monday to Sunday) of a day, counted from Monday 30 December 2024.
IsoWeek(created_at) == (DaysSince2025(created_at) + 2) \div DaysPerWeek

\* Two events fall into the same period of the timeframe: the same ISO week for
\* the week timeframe, the same calendar month otherwise.
SamePeriod(a, b, timeframe) ==
    IF timeframe = "week"
    THEN IsoWeek(a.created_at) = IsoWeek(b.created_at)
    ELSE /\ FullYear(a.created_at) = FullYear(b.created_at)
         /\ MonthOf(a.created_at) = MonthOf(b.created_at)

\* Two events fall into the same period as the program keys it.
SameKey(a, b, timeframe) ==
    TimeKey(a.created_at, timeframe) = TimeKey(b.created_at, timeframe)

\* satisfied_at_level when non-null, reveal_level otherwise.
LevelOfEvent(e) ==
    IF e.satisfied_at_level # Null THEN e.satisfied_at_level ELSE e.reveal_level

RECURSIVE SumOfLevels(_)
SumOfLevels(events) ==
    IF events = {} THEN 0
    ELSE LET e == CHOOSE x \in events : TRUE
         IN  LevelOfEvent(e) + SumOfLevels(events \ {e})

\* The bucket reports the events of the period: their distinct problems and
\* the mean of their levels.
BucketOf(bucket, events, timeframe) ==
    /\ bucket.period \in {TimeKey(e.created_at, timeframe) : e \in events}
    /\ bucket.problems_count = Cardinality({e.problem_id : e \in events})
    /\ SameQuotient(bucket.avg_reveal_level,
                    [total |-> SumOfLevels(events), problems |-> Cardinality(events)])

\* C16: the trend has exactly one bucket for each period (ISO week for the week
\* timeframe, calendar month otherwise) that holds a reveal event and none for
\* the others; the bucket counts the distinct problems of the period's events
\* and averages satisfied_at_level when non-null, reveal_level otherwise.
C16_OneBucketPerPeriod ==
    TrendReturned =>
        LET timeframe == returned.value.timeframe
            trendData == returned.value.trendData
            periods == {{b \in stored : SamePeriod(a, b, timeframe)} : a \in stored}
        IN  /\ Len(trendData) = Cardinality(periods)
            /\ \A events \in periods :
                  Cardinality({i \in 1..Len(trendData) :
                                  BucketOf(trendData[i], events, timeframe)}) = 1

\* C16, lemma: the same with the periods the program keys (for the week
\* timeframe the seven-day spans counted from 1 January of the year).
C16_OneBucketPerKey ==
    TrendReturned =>
        LET timeframe == returned.value.timeframe
            trendData == returned.value.trendData
            periods == {{b \in stored : SameKey(a, b, timeframe)} : a \in stored}
        IN  /\ Len(trendData) = Cardinality(periods)
            /\ \A events \in periods :
                  Cardinality({i \in 1..Len(trendData) :
                                  BucketOf(trendData[i], events, timeframe)}) = 1

\* One period is before another.
Earlier(p, q) == p.year < q.year \/ (p.year = q.year /\ p.number < q.number)

\* C17: the buckets of the trend are in chronological ascending order for every
\* timeframe, also when the events span a year boundary.
C17_BucketsChronological ==
    TrendReturned =>
        LET trendData == returned.value.trendData
        IN  \A i, j \in 1..Len(trendData) :
               i < j => Earlier(trendData[i].period, trendData[j].period)

\* C17, witness: a trend with buckets on both sides of a year boundary.
C17_Witness ==
    /\ TrendReturned
    /\ Len(returned.value.trendData) >= 2
    /\ returned.value.trendData[1].period.year < returned.value.trendData[2].period.year

\* Both the last and the next result are trends of the same timeframe.
SameQueryAgain ==
    /\ TrendReturned
    /\ returned'.op = "getUserLearningTrend" /\ returned'.ok
    /\ returned'.value.timeframe = returned.value.timeframe

\* C18 as stated: over the same set of events the trend is the same (buckets,
\* order, values, category breakdown) in whatever order the store holds them.
C18_TrendOrderIndependent ==
    [][SameQueryAgain => returned'.value = returned.value]_vars

\* A trend whose category breakdowns are taken as sets of entries.
Unordered(trendData) ==
    [i \in 1..Len(trendData) |->
        [trendData[i] EXCEPT
            !.categories = {trendData[i].categories[c] :
                               c \in 1..Len(trendData[i].categories)}]]

\* C18, amended: over the same set of events the trend has the same buckets in
\* the same order with the same values and the same category entries; the order
\* of the category entries of a bucket may differ.
C18_TrendSameUpToCategoryOrder ==
    [][SameQueryAgain =>
          Unordered(returned'.value.trendData) = Unordered(returned.value.trendData)]_vars

\* C18, witness: a trend over two events that share their created_at and differ
\* in category and level.
C18_Witness ==
    /\ TrendReturned
    /\ \E a, b \in stored :
          /\ a.created_at = b.created_at
          /\ CategoryOf(a.problem_id) # CategoryOf(b.problem_id)
          /\ LevelOfEvent(a) # LevelOfEvent(b)

-----------------------------------------------------------------------------
(* Claims about profiles and hint credits *)

\* useHintCredit is called for a user whose stored profile has no credits left.
UseWithoutCredits ==
    /\ UseHintCreditCall
    /\ user_profiles # {}
    /\ Row(user_profiles).hint_credits_remaining = 0

\* The call is rejected with creditsRemaining 0 and no stored row changes.
RejectedUnchanged ==
    /\ ~lastCall'.result.success
    /\ lastCall'.result.creditsRemaining = 0
    /\ UNCHANGED <<user_profiles, hint_usage>>

ProfileLookup == GetUserProfileCall \/ RefreshUserProfileCall

\* The profile of a user who has just been created.
IsNewProfile(profile) ==
    /\ profile.hint_credits_remaining = 20
    /\ profile.problems_solved = 0
    /\ profile.streak_days = 0
    /\ profile.show_solutions_by_default = FALSE

\* A new profile was created and returned.
CreatedAndReturned ==
    /\ user_profiles' # {} /\ IsNewProfile(Row(user_profiles'))
    /\ lastCall'.data = user_profiles'

\* Null was returned and no profile was created.
NullAndNoneCreated ==
    /\ lastCall'.data = {}
    /\ UNCHANGED user_profiles

\* C20 as stated: a lookup that reports "not found" creates a new profile (20
\* credits, 0 solved, 0 streak, show_solutions_by_default false) and returns it;
\* any other lookup error returns null and creates no profile.
C20_NotFoundCreates ==
    [][ProfileLookup =>
          /\ (user_profiles = {} /\ lastCall'.outcome.fetch) => CreatedAndReturned
          /\ ~lastCall'.outcome.fetch => NullAndNoneCreated]_vars

\* C20, amended: after "not found" the profile is created and returned when the
\* insert succeeds; when the insert fails, as after any other lookup error,
\* null is returned and no profile is created.
C20_NotFoundCreatesWhenInserted ==
    [][ProfileLookup =>
          /\ (user_profiles = {} /\ lastCall'.outcome.fetch /\ lastCall'.outcome.write)
                => CreatedAndReturned
          /\ (user_profiles = {} /\ lastCall'.outcome.fetch /\ ~lastCall'.outcome.write)
                => NullAndNoneCreated
          /\ ~lastCall'.outcome.fetch => NullAndNoneCreated]_vars

\* C20, witness: a lookup that found no profile has created and returned one.
C20_Witness ==
    /\ lastCall.op \in {"getUserProfile", "refreshUserProfile"}
    /\ lastCall.profiles = {}
    /\ lastCall.outcome.fetch /\ lastCall.outcome.write
    /\ lastCall.data # {} /\ IsNewProfile(Row(lastCall.data))
    /\ user_profiles # {}

-----------------------------------------------------------------------------
(* Claims about the explanation step *)

\* The user_explanations rows that reference a problem.
ExplanationsOf(rows, problemId) == {r \in rows : r.problem_id = problemId}

\* The handler that just ran created exactly one matching explanation row for
\* every problem_history row it created, and told the flow that row's problem.
OneExplanationCreated ==
    \A problemId \in problem_history' \ problem_history :
        /\ completion'.called /\ completion'.problemId = problemId
        /\ Cardinality(ExplanationsOf(user_explanations', problemId)) = 1
        /\ \A r \in ExplanationsOf(user_explanations', problemId) :
              IF completion'.handler = "handleSubmit"
              THEN ~r.is_skipped /\ r.explanation_text = "text"
              ELSE r.is_skipped /\ r.explanation_text = ""

\* C21: for every problem_history row created when a signed-in user submits or
\* skips the explanation step, exactly one user_explanations row referencing it
\* (is_skipped false with the text on submit, true with empty text on skip)
\* exists when the flow is told the step is complete.
C21_OneExplanationPerProblem ==
    [][(HandleSubmit \/ HandleSkip) => OneExplanationCreated]_vars

\* C21, lemma: no problem ever has more than one explanation row, and every
\* explanation row references a stored problem.
C21_AtMostOneExplanation ==
    \A r \in user_explanations :
        /\ r.problem_id \in problem_history
        /\ Cardinality(ExplanationsOf(user_explanations, r.problem_id)) = 1

-----------------------------------------------------------------------------
(* Claims about the prefix reveal *)

\* The section was rendered.
Rendered == returned.op = "getVisibleLines"

\* ceil(L * total_lines / 5)
CeilFifths(L, total_lines) == (L * total_lines + 4) \div 5

\* One sequence is a prefix of another.
IsPrefix(s, u) == Len(s) <= Len(u) /\ \A i \in 1..Len(s) : s[i] = u[i]

\* C22: at reveal level L the visible content is the first ceil(L * total_lines / 5)
\* lines: nothing at level 0, the whole content at level 5, and what is visible
\* at level L is a prefix of what is visible at level L + 1.
C22_PrefixReveal ==
    [][returned'.op = "getVisibleLines" =>
          LET L == returned'.value.revealLevel
              visible == returned'.value.visibleLines
          IN  /\ visible = SubSeq(stored, 1, CeilFifths(L, Len(stored)))
              /\ L = 0 => visible = <<>>
              /\ L = MaxLevel => visible = stored
              /\ (Rendered /\ L = returned.value.revealLevel + 1) =>
                    IsPrefix(returned.value.visibleLines, visible)]_vars

\* C22, witness: a section of several lines rendered at a level that shows some
\* lines and hides others, with a line count that is not a multiple of five.
C22_Witness ==
    /\ Rendered
    /\ Len(stored) % 5 # 0
    /\ returned.value.revealLevel \in 1..(MaxLevel - 1)
    /\ returned.value.visibleLines # <<>>
    /\ Len(returned.value.visibleLines) < Len(stored)

-----------------------------------------------------------------------------
(* Further claims about the session flow *)

\* C23: a no-screenshots event only raises a notification; the view, the flow
\* step, the explanation-submitted flag, the solution data and every cache
\* entry are as before, in the queue view and in the solutions view.
C23_NoScreenshotsOnlyNotifies ==
    last.event = "no-screenshots" =>
        /\ toast = "neutral"
        /\ view = last.view
        /\ solutions = last.solutions
        /\ queryCache = last.queryCache

\* C23, witness: the event arrived while Solutions showed a cached solution.
C23_Witness ==
    /\ last.event = "no-screenshots"
    /\ view = "solutions"
    /\ solutions.currentStep = "solution_ready"
    /\ solutions.hasSubmittedExplanation
    /\ Truthy(queryCache.solution)

-----------------------------------------------------------------------------
(* Claims about overlapping trackCodeReveal calls *)

\* No trackCodeReveal call is in flight.
Quiescent == \A c \in Callers : inflight[c].pc = "idle"

\* The table holds at most one row for each key, at the highest level submitted.
OneRowAtHighestLevel ==
    \A key \in Keys :
        /\ Cardinality(MatchingRows(code_reveals, key)) <= 1
        /\ tracker.submitted[key] > 0 =>
              /\ HasSingle(code_reveals, key)
              /\ Single(code_reveals, key).reveal_level = tracker.submitted[key]

\* C24: after any sequence of trackCodeReveal calls, also calls for one key whose
\* select and write interleave, the table holds at most one row for each key and
\* its reveal_level is the highest level submitted.
C24_OneRowPerKey == Quiescent => OneRowAtHighestLevel

\* C24, lemma: the same for calls that never overlap.
C24_OneRowPerKeySerial == (Quiescent /\ ~tracker.overlapped) => OneRowAtHighestLevel

-----------------------------------------------------------------------------
(* Claims about the two writes of useHintCredit *)

\* The profile the useHintCredit call of this step read.
ProfileRead == GetUserProfile(user_profiles, lastCall'.outcome)

\* The call of this step went on to the decrement write.
DecrementIssued ==
    /\ ProfileRead.data # {}
    /\ Row(ProfileRead.data).hint_credits_remaining > 0

-----------------------------------------------------------------------------
(* Claims about the learning_progress rows written by reveal tracking *)

\* C26: in every learning_progress row written by reveal tracking problems_solved
\* is at most problems_attempted, after any sequence of reveal and
\* mark-satisfied calls (here: calls that do not even overlap).
C26_SolvedAtMostAttempted ==
    ~tracker.overlapped =>
        \A r \in learning_progress : r.problems_solved <= r.problems_attempted

-----------------------------------------------------------------------------
(* Claims about useHintCredit calls that overlap *)

\* C27: every successful useHintCredit lowers the stored hint_credits_remaining
\* by exactly one, also when two calls overlap: since the last daily reset the
\* number of successful calls is 20 minus the stored credits, and the stored
\* value is never below zero.
C27_EachSuccessLowersByOne ==
    user_profiles # {} =>
        /\ ledger.successes = InitialCredits - Row(user_profiles).hint_credits_remaining
        /\ Row(user_profiles).hint_credits_remaining >= 0

\* Calls that run one after the other keep the balance.
C27_SerialCallsBalance ==
    ~ledger.overlapped /\ user_profiles # {} =>
        ledger.successes = InitialCredits - Row(user_profiles).hint_credits_remaining

\* The stored credits never fall below zero.
C27_NeverBelowZero ==
    user_profiles # {} => Row(user_profiles).hint_credits_remaining >= 0

-----------------------------------------------------------------------------
(* Claims about the UserProvider *)

\* C30: profile loading ends for a signed-in user: once the provider has set a
\* user from the auth session, isLoadingProfile becomes false (here: or the
\* user signs out), so the dashboard leaves its loading screen.
C30_ProfileLoadingEnds ==
    provider.user ~> (~DashboardLoading \/ ~provider.user)

\* Loading does end when a consumer of the context has called refreshUserProfile.
C30_LoadingEndsAfterContextRefresh ==
    provider.loads > 0 ~> ~DashboardLoading

-----------------------------------------------------------------------------
(* Claims about runs that follow one another *)

\* C28: after solution-start the machine stays in extracting until a
\* problem-extracted event of that run: the step that moves a mounted page from
\* extracting to user_explanation is the handling of a problem-extracted event
\* (or of a statement another party writes to the cache), never the cache
\* effect finding a statement an earlier run left behind.
C28_ExtractingUntilProblemExtracted ==
    [][ ( /\ view = "solutions"
          /\ solutions.currentStep = "extracting"
          /\ view' = "solutions"
          /\ solutions'.currentStep = "user_explanation" )
        => last'.event \in {"problem-extracted", "cache-event"} ]_vars

\* The view went back to the queue in the last step.
ReturnedToQueue ==
    /\ last.view = "solutions"
    /\ view = "queue"
    /\ last.event \in {"reset", "unauthorized", "solution-error"}

\* C29: whenever the view returns to the queue (reset, unauthorized, solution
\* error without a cached solution) no debug artifact remains in the session
\* cache.
C29_NoDebugArtifactInQueue == ReturnedToQueue => ~Truthy(queryCache.new_solution)

\* A reset that arrives while Solutions is mounted leaves no debug artifact.
C29_ResetLeavesNoArtifact ==
    ReturnedToQueue /\ last.event = "reset" => ~Truthy(queryCache.new_solution)

\* A solution-start that mounts Solutions leaves the debug view hidden.
C29_StartShowsExtracting ==
    last.event = "solution-start" /\ last.view = "queue" => ~RendersDebug

====
